---- MODULE Spec2Model ----
(***************************************************************************)
(* A model of V8Simple.cpp: the bridge between a host application and an   *)
(* embedded script engine.  The engine itself (compiler, collector) is an  *)
(* external collaborator: what it answers is an input drawn from small     *)
(* sets; what the bridge does with the answer is translated from the code. *)
(*                                                                         *)
(* The specifications share the variables; each moves the part of the      *)
(* state its operations touch:                                             *)
(*   Spec          the Context life cycle, Evaluate and the facades;       *)
(*   DebugSpec     the life cycle and the debug plumbing;                  *)
(*   CallbackSpec  the life cycle, the boxing of callbacks, the trampoline *)
(*                 and the collector;                                      *)
(*   LiveSpec      CallbackSpec with weak fairness on the collection pass  *)
(*                 (Context::IdleNotificationDeadline);                    *)
(*   MarshalSpec   Wrap and Unwrap applied to every engine value of a      *)
(*                 bounded universe.                                       *)
(***************************************************************************)
EXTENDS Integers, Sequences, FiniteSets, TLC

(***************************************************************************)
(* Bounds of the model.                                                    *)
(***************************************************************************)
\* longest script string, in code units
MaxStrLen == 2
\* successful Context constructions in one process
MaxConstructs == 2
\* callbacks boxed into script functions in one process
MaxBoxes == 2
\* debug commands queued and not yet processed
MaxPending == 1

NULL == "nullptr"

(***************************************************************************)
(* Engine values.  Every value has the same fields, so that any two can be *)
(* compared; a field that a kind does not use holds its default.           *)
(* A number is its whole part, whether one half is added to it, and        *)
(* whether it is minus zero; the whole parts are 32-bit integers.          *)
(***************************************************************************)
Int32Max == 2147483646 + 1
Int32Min == (-Int32Max) - 1

Num(whole, half, negZero) == [whole |-> whole, half |-> half, negZero |-> negZero]
NoNum == Num(0, FALSE, FALSE)

\* -1, 0, 7, the two ends of int32, 0.5, 7.5, -0
Numbers ==
    { Num(-1, FALSE, FALSE), Num(0, FALSE, FALSE), Num(7, FALSE, FALSE),
      Num(Int32Min, FALSE, FALSE), Num(Int32Max, FALSE, FALSE),
      Num(0, TRUE, FALSE), Num(7, TRUE, FALSE), Num(0, FALSE, TRUE) }

\* code units: NUL, 'a', U+00E9
Chars == {0, 97, 233}

RECURSIVE SeqsUpTo(_, _)
SeqsUpTo(S, n) ==
    IF n = 0 THEN {<<>>}
    ELSE LET shorter == SeqsUpTo(S, n - 1)
         IN  shorter \cup {Append(s, c) : s \in shorter, c \in S}

Strings == SeqsUpTo(Chars, MaxStrLen)

EV(kind, num, bool, str, id, throws) ==
    [kind |-> kind, num |-> num, bool |-> bool, str |-> str, id |-> id,
     throws |-> throws]

NumberV(n) == EV("number", n, FALSE, <<>>, 0, FALSE)
BooleanV(b) == EV("boolean", NoNum, b, <<>>, 0, FALSE)
StringV(s) == EV("string", NoNum, FALSE, s, 0, FALSE)
\* wrapper objects: converting one to a primitive runs script code (valueOf,
\* toString), which may throw
NumberObjectV(n, t) == EV("NumberObject", n, FALSE, <<>>, 0, t)
BooleanObjectV(b) == EV("BooleanObject", NoNum, b, <<>>, 0, FALSE)
StringObjectV(s, t) == EV("StringObject", NoNum, FALSE, s, 0, t)
HeapV(kind, id) == EV(kind, NoNum, FALSE, <<>>, id, FALSE)
NullV == EV("null", NoNum, FALSE, <<>>, 0, FALSE)
UndefinedV == EV("undefined", NoNum, FALSE, <<>>, 0, FALSE)
SymbolV == EV("symbol", NoNum, FALSE, <<>>, 0, FALSE)

HeapIds == {1, 2}

ScalarValues ==
    {NumberV(n) : n \in Numbers} \cup {BooleanV(b) : b \in BOOLEAN}
        \cup {StringV(s) : s \in Strings}

EngineValues ==
    ScalarValues
        \cup {NumberObjectV(n, t) : n \in {Num(7, FALSE, FALSE), Num(0, TRUE, FALSE)}, t \in BOOLEAN}
        \cup {BooleanObjectV(b) : b \in BOOLEAN}
        \cup {StringObjectV(s, t) : s \in {<<>>, <<97>>}, t \in BOOLEAN}
        \cup {HeapV(k, i) : k \in {"array", "function", "object"}, i \in HeapIds}
        \cup {NullV, UndefinedV, SymbolV}

(***************************************************************************)
(* The engine's predicates on a value, as Wrap asks them.                  *)
(***************************************************************************)
IsInt32(v) ==
    /\ v.kind = "number"
    /\ ~v.num.negZero
    /\ ~v.num.half
    /\ v.num.whole >= Int32Min
    /\ v.num.whole <= Int32Max
IsNumber(v) == v.kind = "number"
IsNumberObject(v) == v.kind = "NumberObject"
IsBoolean(v) == v.kind = "boolean"
IsBooleanObject(v) == v.kind = "BooleanObject"
IsString(v) == v.kind = "string"
IsStringObject(v) == v.kind = "StringObject"
IsArray(v) == v.kind = "array"
IsFunction(v) == v.kind = "function"
IsObject(v) ==
    v.kind \in {"object", "array", "function", "NumberObject", "BooleanObject",
                "StringObject"}
IsUndefined(v) == v.kind = "undefined"
IsNull(v) == v.kind = "null"

(***************************************************************************)
(* The engine's conversions, each a Maybe: nothing when script code run by *)
(* the conversion throws.                                                  *)
(***************************************************************************)
Just(x) == [just |-> TRUE, val |-> x]
Nothing(x) == [just |-> FALSE, val |-> x]

Int32Value(v) == Just(v.num.whole)
NumberValue(v) == IF v.throws THEN Nothing(NoNum) ELSE Just(v.num)
BooleanValue(v) == Just(v.bool)
ToStringMaybe(v) == IF v.throws THEN Nothing(<<>>) ELSE Just(v.str)
ToObject(v) == Just(v.id)

(***************************************************************************)
(* UTF-8, as v8::String::Utf8Value writes it and NewFromUtf8 reads it      *)
(* (code units below U+0800).                                              *)
(***************************************************************************)
Utf8Char(c) == IF c < 128 THEN <<c>> ELSE <<192 + (c \div 64), 128 + (c % 64)>>

RECURSIVE Utf8Value(_)
Utf8Value(s) == IF s = <<>> THEN <<>> ELSE Utf8Char(Head(s)) \o Utf8Value(Tail(s))

RECURSIVE Utf8Decode(_)
Utf8Decode(b) ==
    IF b = <<>> THEN <<>>
    ELSE IF Head(b) < 128 THEN <<Head(b)>> \o Utf8Decode(Tail(b))
    ELSE IF Len(b) >= 2
         THEN <<(Head(b) - 192) * 64 + (b[2] - 128)>> \o Utf8Decode(Tail(Tail(b)))
         ELSE <<65533>>

\* strlen: the bytes before the first NUL of a buffer
RECURSIVE StrLen(_)
StrLen(buf) == IF buf = <<>> \/ Head(buf) = 0 THEN 0 ELSE 1 + StrLen(Tail(buf))

\* v8::String::NewFromUtf8(isolate, str) with the length left to its default
NewFromUtf8(buf) == Utf8Decode(SubSeq(buf, 1, StrLen(buf)))

ToV8String(str) == NewFromUtf8(str)

(***************************************************************************)
(* Boundary Values, as the host holds them.  nullptr is the null Value.    *)
(* A String is its buffer (length + 1 bytes, the last one NUL) and its     *)
(* length.                                                                 *)
(***************************************************************************)
HV(type, int, dbl, bool, buf, len, id, cb) ==
    [type |-> type, int |-> int, dbl |-> dbl, bool |-> bool, buf |-> buf,
     len |-> len, id |-> id, cb |-> cb]

NewInt(i) == HV("Int", i, NoNum, FALSE, <<>>, 0, 0, NULL)
NewDouble(d) == HV("Double", 0, d, FALSE, <<>>, 0, 0, NULL)
NewBool(b) == HV("Bool", 0, NoNum, b, <<>>, 0, 0, NULL)
\* String::String(const char* value, int length): memcpy of length + 1 bytes
NewString(value, length) ==
    HV("String", 0, NoNum, FALSE, SubSeq(value, 1, length + 1), length, 0, NULL)
NewArray(id) == HV("Array", 0, NoNum, FALSE, <<>>, 0, id, NULL)
NewFunction(id) == HV("Function", 0, NoNum, FALSE, <<>>, 0, id, NULL)
NewObject(id) == HV("Object", 0, NoNum, FALSE, <<>>, 0, id, NULL)
CallbackValue(cb) == HV("Callback", 0, NoNum, FALSE, <<>>, 0, 0, cb)
nullptr == HV(NULL, 0, NoNum, FALSE, <<>>, 0, 0, NULL)

\* String::GetValue: the buffer, as a C string
GetValue(value) == value.buf

(***************************************************************************)
(* Context::FromJust and Context::Wrap.  A conversion ends in a Value      *)
(* ("ok"), in a ScriptException thrown by FromJust, or in the              *)
(* std::runtime_error of an unhandled type.                                *)
(***************************************************************************)
Ok(value) == [status |-> "ok", value |-> value]
Thrown(what) == [status |-> what, value |-> nullptr]

\* FromJust(context, tryCatch, a): the value of a, or Throw
FromJust(a, value) == IF a.just THEN Ok(value) ELSE Thrown("ScriptException")

\* the C string and the length of a v8::String::Utf8Value
Utf8Buffer(s) == Utf8Value(s) \o <<0>>
Utf8Length(s) == Len(Utf8Value(s))

Wrap_ObjectBeforeArray(value) ==
    IF IsInt32(value)
    THEN FromJust(Int32Value(value), NewInt(Int32Value(value).val))
    ELSE IF IsNumber(value) \/ IsNumberObject(value)
    THEN FromJust(NumberValue(value), NewDouble(NumberValue(value).val))
    ELSE IF IsBoolean(value) \/ IsBooleanObject(value)
    THEN FromJust(BooleanValue(value), NewBool(BooleanValue(value).val))
    ELSE IF IsString(value) \/ IsStringObject(value)
    THEN FromJust(ToStringMaybe(value),
                  NewString(Utf8Buffer(ToStringMaybe(value).val),
                            Utf8Length(ToStringMaybe(value).val)))
    ELSE IF IsObject(value)
    THEN FromJust(ToObject(value), NewObject(ToObject(value).val))
    ELSE IF IsArray(value)
    THEN FromJust(ToObject(value), NewArray(ToObject(value).val))
    ELSE IF IsFunction(value)
    THEN FromJust(ToObject(value), NewFunction(ToObject(value).val))
    ELSE IF IsUndefined(value) \/ IsNull(value)
    THEN Ok(nullptr)
    ELSE Thrown("runtime_error")

Wrap(value) ==
    IF IsInt32(value)
    THEN FromJust(Int32Value(value), NewInt(Int32Value(value).val))
    ELSE IF IsNumber(value) \/ IsNumberObject(value)
    THEN FromJust(NumberValue(value), NewDouble(NumberValue(value).val))
    ELSE IF IsBoolean(value) \/ IsBooleanObject(value)
    THEN FromJust(BooleanValue(value), NewBool(BooleanValue(value).val))
    ELSE IF IsString(value) \/ IsStringObject(value)
    THEN FromJust(ToStringMaybe(value),
                  NewString(Utf8Buffer(ToStringMaybe(value).val),
                            Utf8Length(ToStringMaybe(value).val)))
    ELSE IF IsArray(value)
    THEN FromJust(ToObject(value), NewArray(ToObject(value).val))
    ELSE IF IsFunction(value)
    THEN FromJust(ToObject(value), NewFunction(ToObject(value).val))
    ELSE IF IsObject(value)
    THEN FromJust(ToObject(value), NewObject(ToObject(value).val))
    ELSE IF IsUndefined(value) \/ IsNull(value)
    THEN Ok(nullptr)
    ELSE Thrown("runtime_error")

\* Wrap(tryCatch, MaybeLocal): an empty result is thrown as a ScriptException
WrapMaybe(mvalue) == IF mvalue.just THEN Wrap(mvalue.val) ELSE Thrown("ScriptException")

(***************************************************************************)
(* Context::Unwrap, the value it returns.  What unwrapping a Callback does *)
(* to the callback and to the engine's weak handles is in BoxCallbacks.    *)
(***************************************************************************)
\* the function the engine synthesizes for a boxed callback
TrampolineFunction == HeapV("function", 0)

Unwrap(value) ==
    IF value = nullptr THEN NullV
    ELSE CASE value.type = "Int" -> NumberV(Num(value.int, FALSE, FALSE))
           [] value.type = "Double" -> NumberV(value.dbl)
           [] value.type = "String" -> StringV(ToV8String(GetValue(value)))
           [] value.type = "Bool" -> BooleanV(value.bool)
           [] value.type = "Object" -> HeapV("object", value.id)
           [] value.type = "Array" -> HeapV("array", value.id)
           [] value.type = "Function" -> HeapV("function", value.id)
           [] value.type = "Callback" -> TrampolineFunction
           [] OTHER -> NullV

(***************************************************************************)
(* The state of the process.                                               *)
(***************************************************************************)
VARIABLES
    _platform,                \* Context::_platform: NULL or "platform"
    platformInits,            \* how often the engine platform was initialized
    _isolate,                 \* Context::_isolate: NoIsolate or an instance
    isolatesCreated,          \* engine instances created so far
    entered,                  \* the global execution scope is entered
    contexts,                 \* the live Context objects (each holds a _context)
    contextsCreated,          \* Context objects constructed so far
    _scriptExceptionHandler,  \* Context::_scriptExceptionHandler
    _debugMessageHandler,     \* Context::_debugMessageHandler
    _instanceOf,              \* Context::_instanceOf: a Function or nullptr
    objects,                  \* the reference-counted host objects
    boxes,                    \* the engine's weak handles on boxed callbacks
    v8MessageHandler,         \* the engine has a debug message handler installed
    pending,                  \* debug commands sent and not yet processed
    last,                     \* the last call across the boundary
    crash,                    \* "none", or the operation the process died in
    marshal                   \* the conversion under way (MarshalSpec)

vars ==
    <<_platform, platformInits, _isolate, isolatesCreated, entered, contexts,
      contextsCreated, _scriptExceptionHandler, _debugMessageHandler,
      _instanceOf, objects, boxes, v8MessageHandler, pending, last, crash,
      marshal>>

lifecycleVars ==
    <<_platform, platformInits, _isolate, isolatesCreated, entered, contexts,
      contextsCreated, _scriptExceptionHandler, _instanceOf>>
debugVars == <<_debugMessageHandler, v8MessageHandler, pending>>

NoIsolate == 0

ExceptionHandlers == {"eh1", "eh2"}
DebugHandlers == {"dh1", "dh2"}
Callbacks == {"cb1"}
RefCounted == ExceptionHandlers \cup DebugHandlers \cup Callbacks

(***************************************************************************)
(* Reference counts.  An object lives while the host holds its own         *)
(* reference or the bridge has retained it more often than released it;    *)
(* the Release that takes the last reference destroys it.  A call on a     *)
(* destroyed object writes to freed memory and leaves the record as it is. *)
(***************************************************************************)
Retain(objs, o) ==
    IF o = NULL \/ objs[o].destroyed THEN objs
    ELSE [objs EXCEPT ![o].retains = @ + 1]

Release(objs, o) ==
    IF o = NULL \/ objs[o].destroyed \/ objs[o].retains = 0 THEN objs
    ELSE [objs EXCEPT ![o].retains = @ - 1,
                      ![o].destroyed = (objs[o].retains = 1 /\ ~objs[o].hostRef)]

Alive(objs, o) == o # NULL /\ ~objs[o].destroyed

(***************************************************************************)
(* The record of a call: the operation, what it met (the engine's answer,  *)
(* or for Construct whether a Context was live), what it returned, what it *)
(* raised to its caller, and the calls it made on its collaborators, in    *)
(* the order of the code.                                                  *)
(***************************************************************************)
Ret(kind, value, bool, n, ev) ==
    [kind |-> kind, value |-> value, bool |-> bool, n |-> n, ev |-> ev]
RetNone == Ret("none", nullptr, FALSE, 0, NullV)
RetVoid == Ret("void", nullptr, FALSE, 0, NullV)
RetPtr(value) == Ret("pointer", value, FALSE, 0, NullV)
RetBool(b) == Ret("bool", nullptr, b, 0, NullV)
RetVector(n) == Ret("vector", nullptr, FALSE, n, NullV)
RetEngine(ev) == Ret("engine", nullptr, FALSE, 0, ev)

Call(op, met, ret, raised, log) ==
    [op |-> op, met |-> met, input |-> NullV, ret |-> ret, raised |-> raised,
     log |-> log]

\* the call, with the engine value it was about
About(call, v) == [call EXCEPT !.input = v]

\* what a call met, from the engine's answer
MetOf(answer) == IF answer.just THEN "ok" ELSE "failed"

Ev(name, arg) == <<name, arg>>

\* how often a call of the given name is in a log
RECURSIVE Count(_, _)
Count(log, name) ==
    IF log = <<>> THEN 0
    ELSE (IF Head(log)[1] = name THEN 1 ELSE 0) + Count(Tail(log), name)

\* the positions of the calls of the given name in a log
Positions(log, name) == {i \in 1..Len(log) : log[i][1] = name}

InitProcess ==
    /\ _platform = NULL
    /\ platformInits = 0
    /\ _isolate = NoIsolate
    /\ isolatesCreated = 0
    /\ entered = FALSE
    /\ contexts = {}
    /\ contextsCreated = 0
    /\ _scriptExceptionHandler = NULL
    /\ _debugMessageHandler = NULL
    /\ _instanceOf = nullptr
    /\ objects = [o \in RefCounted |->
                    [hostRef |-> TRUE, retains |-> 0, destroyed |-> FALSE]]
    /\ boxes = <<>>
    /\ v8MessageHandler = FALSE
    /\ pending = 0
    /\ last = Call("none", "none", RetNone, "none", <<>>)
    /\ crash = "none"

Marshalling(stage, v, w, u) == [stage |-> stage, v |-> v, w |-> w, u |-> u]

Init ==
    /\ InitProcess
    /\ marshal = Marshalling("idle", NullV, Ok(nullptr), NullV)

Running == crash = "none"
Live == Running /\ contexts # {}

(***************************************************************************)
(* Exception translation.                                                  *)
(***************************************************************************)
HandleScriptException_Silent(handler) == <<>>

\* Context::HandleScriptException: the calls it makes
HandleScriptException(handler) ==
    IF handler # NULL THEN <<Ev("Handle", handler)>> ELSE <<>>

(***************************************************************************)
(* Sources.  The engine compiles a source or not, and running it returns a *)
(* value or nothing (the script threw).                                    *)
(***************************************************************************)
Source(compiles, result) == [compiles |-> compiles, result |-> result]

\* "(function(x, y) { return (x instanceof y); })"
InstanceOfSource == Source(TRUE, Just(HeapV("function", 1)))

\* values a script hands back in the life-cycle specification
SampleValues ==
    { NumberV(Num(7, FALSE, FALSE)), StringV(<<97>>), HeapV("object", 1), NullV,
      SymbolV }

Sources ==
    {Source(FALSE, Nothing(NullV)), Source(TRUE, Nothing(NullV))}
        \cup {Source(TRUE, Just(v)) : v \in EngineValues}

\* the body of Context::Evaluate, up to its catch clause
EvaluateTry(source) ==
    IF ~source.compiles THEN Thrown("ScriptException") ELSE WrapMaybe(source.result)

\* catch (ScriptException&) of a pointer-valued operation: report, return null;
\* a std::runtime_error passes to the caller
TrapPointer(op, met, outcome, before) ==
    CASE outcome.status = "ok" ->
            Call(op, met, RetPtr(outcome.value), "none", before)
      [] outcome.status = "ScriptException" ->
            Call(op, met, RetPtr(nullptr), "none",
                 before \o HandleScriptException(_scriptExceptionHandler))
      [] OTHER -> Call(op, met, RetNone, outcome.status, before)

(***************************************************************************)
(* Context: construction and destruction.                                  *)
(***************************************************************************)
PlatformMissing_Unchecked == TRUE

\* if (_platform == nullptr)
PlatformMissing == _platform = NULL

IsolateMissing_Unchecked == TRUE

\* if (_isolate == nullptr)
IsolateMissing == _isolate = NoIsolate

Resource(ev) ==
    CASE ev[1] \in {"Isolate::New", "Dispose"} -> "engine instance"
      [] ev[1] \in {"Enter", "Exit"} -> "global scope"
      [] ev[1] \in {"Retain", "Release"} -> "exception handler"
      [] ev[1] \in {"Evaluate", "delete"} -> "instanceof helper"
      [] OTHER -> "platform"

\* the calls of a successful construction, after the platform is set up
ConstructSteps(handler) ==
    << Ev("Isolate::New", ""), Ev("Enter", ""), Ev("Retain", handler),
       Ev("Evaluate", "instanceof") >>

PlatformSteps ==
    IF PlatformMissing
    THEN <<Ev("SetFlagsFromString", ""), Ev("InitializePlatform", "")>>
    ELSE <<Ev("SetFlagsFromString", "")>>

Construct(handler) ==
    /\ Running
    /\ Alive(objects, handler)
    /\ _platform' = "platform"
    /\ platformInits' = IF PlatformMissing THEN platformInits + 1 ELSE platformInits
    /\ IF IsolateMissing
       THEN /\ contextsCreated < MaxConstructs
            /\ _isolate' = isolatesCreated + 1
            /\ isolatesCreated' = isolatesCreated + 1
            /\ entered' = TRUE
            /\ _scriptExceptionHandler' = handler
            /\ objects' = Retain(objects, handler)
            /\ contexts' = contexts \cup {contextsCreated + 1}
            /\ contextsCreated' = contextsCreated + 1
            /\ _instanceOf' = EvaluateTry(InstanceOfSource).value
            /\ last' = Call("Construct",
                            IF contexts # {} THEN "live" ELSE "fresh",
                            RetVoid, "none",
                            PlatformSteps \o ConstructSteps(handler))
       ELSE \* throw std::runtime_error("V8Simple Contexts are not re-entrant")
            /\ last' = Call("Construct",
                            IF contexts # {} THEN "live" ELSE "fresh",
                            RetNone, "runtime_error", PlatformSteps)
            /\ UNCHANGED <<_isolate, isolatesCreated, entered, contexts,
                           contextsCreated, _scriptExceptionHandler,
                           _instanceOf, objects>>
    /\ UNCHANGED <<boxes, debugVars, crash, marshal>>

DestructSteps_DisposeFirst(handler) ==
    << Ev("Dispose", ""), Ev("delete", "_instanceOf"), Ev("Release", handler),
       Ev("Exit", "") >>

\* the calls of Context::~Context
DestructSteps(handler) ==
    << Ev("delete", "_instanceOf"), Ev("Release", handler), Ev("Exit", ""),
       Ev("Dispose", "") >>

\* ~Context leaves the platform as it is (V8::Dispose and ShutdownPlatform
\* are commented out)
PlatformAfterDestruct == _platform

\* a weak handle dies with its engine instance; its finalizer is not run
DisposeBoxes(bxs, isolate) ==
    [i \in 1..Len(bxs) |->
        IF bxs[i].isolate = isolate /\ bxs[i].state = "weak"
        THEN [bxs[i] EXCEPT !.state = "disposed", !.reachable = FALSE]
        ELSE bxs[i]]

Destruct(c) ==
    /\ Running
    /\ c \in contexts
    /\ _instanceOf' = nullptr
    /\ objects' = Release(objects, _scriptExceptionHandler)
    /\ _scriptExceptionHandler' = NULL
    /\ entered' = FALSE
    /\ contexts' = contexts \ {c}
    /\ boxes' = DisposeBoxes(boxes, _isolate)
    /\ v8MessageHandler' = FALSE
    /\ pending' = 0
    /\ _isolate' = NoIsolate
    /\ _platform' = PlatformAfterDestruct
    /\ last' = Call("Destruct", "live", RetVoid, "none",
                    DestructSteps(_scriptExceptionHandler))
    /\ UNCHANGED <<platformInits, isolatesCreated, contextsCreated,
                   _debugMessageHandler, crash, marshal>>

(***************************************************************************)
(* Context::Evaluate.                                                      *)
(***************************************************************************)
Evaluate(source) ==
    /\ Live
    /\ last' = About(TrapPointer("Evaluate",
                                 IF source.compiles THEN MetOf(source.result)
                                 ELSE "failed",
                                 EvaluateTry(source), <<>>),
                     source.result.val)
    /\ UNCHANGED <<lifecycleVars, debugVars, objects, boxes, crash, marshal>>

(***************************************************************************)
(* Boxing of callbacks (the Callback case of Context::Unwrap): each        *)
(* Callback among the values is retained and gets a weak handle whose      *)
(* finalizer releases it.  The handle outlives the scope that made it: the *)
(* destructor of a v8::Persistent does not reset it.                       *)
(***************************************************************************)
RECURSIVE CallbacksIn(_)
CallbacksIn(values) ==
    IF values = <<>> THEN <<>>
    ELSE (IF Head(values).type = "Callback" THEN <<Head(values).cb>> ELSE <<>>)
             \o CallbacksIn(Tail(values))

\* boxing that leaves out callback->Retain()
RetainAll_Missing(objs, cbs) == objs

RECURSIVE RetainAll(_, _)
RetainAll(objs, cbs) ==
    IF cbs = <<>> THEN objs ELSE RetainAll(Retain(objs, Head(cbs)), Tail(cbs))

RECURSIVE ReleaseAll(_, _)
ReleaseAll(objs, cbs) ==
    IF cbs = <<>> THEN objs ELSE ReleaseAll(Release(objs, Head(cbs)), Tail(cbs))

Box(cb, isolate, reachable) ==
    [cb |-> cb, isolate |-> isolate, reachable |-> reachable, state |-> "weak"]

WeakHandle_ResetAtScopeExit(cb, isolate, reachable) ==
    [cb |-> cb, isolate |-> isolate, reachable |-> reachable, state |-> "reset"]

\* persistentCallback.SetWeak(callback, finalizer, kParameter)
WeakHandle(cb, isolate, reachable) == Box(cb, isolate, reachable)

BoxAll(bxs, cbs, isolate, reachable) ==
    bxs \o [i \in 1..Len(cbs) |-> WeakHandle(cbs[i], isolate, reachable)]

RetainLog(cbs) == [i \in 1..Len(cbs) |-> Ev("Retain", cbs[i])]

\* UnwrapVector, and Unwrap of one value: what it does to the state
Marshalled(values, reachable) ==
    /\ \A i \in 1..Len(values) :
          values[i].type = "Callback" => Alive(objects, values[i].cb)
    /\ Len(boxes) + Len(CallbacksIn(values)) <= MaxBoxes
    /\ objects' = RetainAll(objects, CallbacksIn(values))
    /\ boxes' = BoxAll(boxes, CallbacksIn(values), _isolate, reachable)

\* values the host passes into the engine
HostValues == {NewInt(7)} \cup {CallbackValue(cb) : cb \in Callbacks}
ArgLists == {<<>>} \cup {<<v>> : v \in HostValues}

\* whether script code keeps hold of the functions made of the callbacks
KeptChoices(args) == IF CallbacksIn(args) = <<>> THEN {TRUE} ELSE BOOLEAN

MaybeValues == {Nothing(NullV)} \cup {Just(v) : v \in SampleValues}
MaybeBools == {Nothing(FALSE), Just(FALSE), Just(TRUE)}

(***************************************************************************)
(* The catch clauses of the facades.                                       *)
(***************************************************************************)
TrapVoid(op, done, before) ==
    IF done.just
    THEN Call(op, MetOf(done), RetVoid, "none", before)
    ELSE Call(op, MetOf(done), RetVoid, "none",
              before \o HandleScriptException(_scriptExceptionHandler))

TrapBool(op, answer, before) ==
    IF answer.just
    THEN Call(op, MetOf(answer), RetBool(answer.val), "none", before)
    ELSE Call(op, MetOf(answer), RetBool(FALSE), "none",
              before \o HandleScriptException(_scriptExceptionHandler))

Quiet == UNCHANGED <<lifecycleVars, debugVars, crash, marshal>>

(***************************************************************************)
(* Object.                                                                 *)
(***************************************************************************)
ObjectGet(mvalue) ==
    /\ Live
    /\ last' = TrapPointer("Object.Get", MetOf(mvalue), WrapMaybe(mvalue), <<>>)
    /\ UNCHANGED <<objects, boxes>>
    /\ Quiet

ObjectSet(value, done) ==
    /\ Live
    /\ Marshalled(<<value>>, done.just)
    /\ last' = TrapVoid("Object.Set", done, RetainLog(CallbacksIn(<<value>>)))
    /\ Quiet

KeyCounts == {0, 2}

\* failAt = 0: GetPropertyNames fails; failAt in 1..n: reading the name at
\* that place fails; failAt = n + 1: nothing fails
ObjectKeys(n, failAt) ==
    /\ Live
    /\ last' = IF failAt = n + 1
               THEN Call("Object.Keys", "ok", RetVector(n), "none", <<>>)
               ELSE Call("Object.Keys", "failed", RetVector(0), "none",
                         HandleScriptException(_scriptExceptionHandler))
    /\ UNCHANGED <<objects, boxes>>
    /\ Quiet

\* Function::Call on values that hold no Callback: the record of the call
FunctionCallRecord(mvalue, before) ==
    TrapPointer("Function.Call", MetOf(mvalue), WrapMaybe(mvalue), before)

\* callResult->GetValue() on the result of the helper.  On a null result the
\* read is undefined: the process dies, or the read yields either boolean.
ObjectInstanceOf(answer, garbage) ==
    /\ Live
    /\ LET inner == FunctionCallRecord(
                        IF answer.just THEN Just(BooleanV(answer.val))
                        ELSE Nothing(NullV), <<>>)
           callResult == inner.ret.value
       IN  IF callResult # nullptr
           THEN /\ last' = Call("Object.InstanceOf", inner.met,
                                RetBool(callResult.bool), "none", inner.log)
                /\ garbage = "none"
                /\ crash' = crash
           ELSE \/ /\ garbage = "none"
                   /\ crash' = "Object.InstanceOf"
                   /\ last' = Call("Object.InstanceOf", inner.met, RetNone,
                                   "none", inner.log)
                \/ /\ garbage \in {"true", "false"}
                   /\ crash' = crash
                   /\ last' = Call("Object.InstanceOf", inner.met,
                                   RetBool(garbage = "true"), "none", inner.log)
    /\ UNCHANGED <<lifecycleVars, debugVars, objects, boxes, marshal>>

\* found = FALSE: looking the method up fails, before the arguments are
\* unwrapped
ObjectCallMethod(args, found, mvalue, kept) ==
    /\ Live
    /\ IF found
       THEN /\ Marshalled(args, kept)
            /\ last' = TrapPointer("Object.CallMethod", MetOf(mvalue),
                                   WrapMaybe(mvalue), RetainLog(CallbacksIn(args)))
       ELSE /\ last' = TrapPointer("Object.CallMethod", "failed",
                                   Thrown("ScriptException"), <<>>)
            /\ UNCHANGED <<objects, boxes>>
    /\ Quiet

ObjectContainsKey(answer) ==
    /\ Live
    /\ last' = TrapBool("Object.ContainsKey", answer, <<>>)
    /\ UNCHANGED <<objects, boxes>>
    /\ Quiet

ObjectEquals(answer) ==
    /\ Live
    /\ last' = TrapBool("Object.Equals", answer, <<>>)
    /\ UNCHANGED <<objects, boxes>>
    /\ Quiet

(***************************************************************************)
(* Function.                                                               *)
(***************************************************************************)
FunctionCall(args, mvalue, kept) ==
    /\ Live
    /\ Marshalled(args, kept)
    /\ last' = FunctionCallRecord(mvalue, RetainLog(CallbacksIn(args)))
    /\ Quiet

FunctionConstruct(args, instance, kept) ==
    /\ Live
    /\ Marshalled(args, kept)
    /\ last' = TrapPointer("Function.Construct", MetOf(instance),
                           FromJust(instance, NewObject(instance.val)),
                           RetainLog(CallbacksIn(args)))
    /\ Quiet

FunctionEquals(answer) ==
    /\ Live
    /\ last' = TrapBool("Function.Equals", answer, <<>>)
    /\ UNCHANGED <<objects, boxes>>
    /\ Quiet

(***************************************************************************)
(* Array.                                                                  *)
(***************************************************************************)
ArrayGet(mvalue) ==
    /\ Live
    /\ last' = TrapPointer("Array.Get", MetOf(mvalue), WrapMaybe(mvalue), <<>>)
    /\ UNCHANGED <<objects, boxes>>
    /\ Quiet

ArraySet(value, done) ==
    /\ Live
    /\ Marshalled(<<value>>, done.just)
    /\ last' = TrapVoid("Array.Set", done, RetainLog(CallbacksIn(<<value>>)))
    /\ Quiet

\* no trap: the engine's Length cannot fail
ArrayLength(n) ==
    /\ Live
    /\ last' = Call("Array.Length", "ok", Ret("int", nullptr, FALSE, n, NullV),
                    "none", <<>>)
    /\ UNCHANGED <<objects, boxes>>
    /\ Quiet

ArrayEquals(answer) ==
    /\ Live
    /\ last' = TrapBool("Array.Equals", answer, <<>>)
    /\ UNCHANGED <<objects, boxes>>
    /\ Quiet

Facade ==
    \/ \E mvalue \in MaybeValues : ObjectGet(mvalue)
    \/ \E value \in HostValues, done \in {Just(TRUE), Nothing(TRUE)} :
          ObjectSet(value, done)
    \/ \E n \in KeyCounts : \E failAt \in 0..(n + 1) : ObjectKeys(n, failAt)
    \/ \E answer \in MaybeBools, garbage \in {"none", "true", "false"} :
          ObjectInstanceOf(answer, garbage)
    \/ \E args \in ArgLists, found \in BOOLEAN, mvalue \in MaybeValues :
          \E kept \in KeptChoices(args) : ObjectCallMethod(args, found, mvalue, kept)
    \/ \E answer \in MaybeBools : ObjectContainsKey(answer)
    \/ \E answer \in MaybeBools : ObjectEquals(answer)
    \/ \E args \in ArgLists, mvalue \in MaybeValues :
          \E kept \in KeptChoices(args) : FunctionCall(args, mvalue, kept)
    \/ \E args \in ArgLists, instance \in {Nothing(0), Just(1)} :
          \E kept \in KeptChoices(args) : FunctionConstruct(args, instance, kept)
    \/ \E answer \in MaybeBools : FunctionEquals(answer)
    \/ \E mvalue \in MaybeValues : ArrayGet(mvalue)
    \/ \E value \in HostValues, done \in {Just(TRUE), Nothing(TRUE)} :
          ArraySet(value, done)
    \/ \E n \in KeyCounts : ArrayLength(n)
    \/ \E answer \in MaybeBools : ArrayEquals(answer)

(***************************************************************************)
(* The collector.  Script code lets go of a synthesized function; a        *)
(* collection pass finalizes the weak handles whose function is            *)
(* unreachable.                                                            *)
(***************************************************************************)
ScriptDrop(i) ==
    /\ Live
    /\ i \in 1..Len(boxes)
    /\ boxes[i].isolate = _isolate
    /\ boxes[i].state \in {"weak", "reset"}
    /\ boxes[i].reachable
    /\ boxes' = [boxes EXCEPT ![i].reachable = FALSE]
    /\ UNCHANGED <<lifecycleVars, debugVars, objects, last, crash, marshal>>

Collectable(bxs, isolate) ==
    {i \in 1..Len(bxs) :
        bxs[i].isolate = isolate /\ bxs[i].state = "weak" /\ ~bxs[i].reachable}

\* the finalizers of one pass: cb->Release() for each handle collected
RECURSIVE Finalized(_, _)
Finalized(bxs, todo) ==
    IF todo = {} THEN <<>>
    ELSE LET i == CHOOSE j \in todo : \A k \in todo : j <= k
         IN  <<bxs[i].cb>> \o Finalized(bxs, todo \ {i})

\* Context::IdleNotificationDeadline: a full collection, then the idle hint
IdleNotificationDeadline(more) ==
    /\ Live
    /\ LET todo == Collectable(boxes, _isolate)
           cbs == Finalized(boxes, todo)
       IN  /\ boxes' = [i \in 1..Len(boxes) |->
                          IF i \in todo THEN [boxes[i] EXCEPT !.state = "finalized"]
                          ELSE boxes[i]]
           /\ objects' = ReleaseAll(objects, cbs)
           /\ last' = Call("IdleNotificationDeadline", "ok", RetBool(more), "none",
                           [i \in 1..Len(cbs) |-> Ev("Release", cbs[i])])
    /\ Quiet

(***************************************************************************)
(* The host lets go of its own reference to an object.                     *)
(***************************************************************************)
HostRelease(o) ==
    /\ Running
    /\ objects[o].hostRef
    /\ ~objects[o].destroyed
    /\ objects' = [objects EXCEPT ![o].hostRef = FALSE,
                                  ![o].destroyed = (objects[o].retains = 0)]
    /\ UNCHANGED <<lifecycleVars, debugVars, boxes, last, crash, marshal>>

(***************************************************************************)
(* The debug plumbing.                                                     *)
(***************************************************************************)
\* the calls of Context::SetDebugMessageHandler, in the order of the code
SetDebugMessageHandlerSteps(old, new) ==
    (IF old # NULL THEN <<Ev("Release", old)>> ELSE <<>>)
        \o <<Ev("SetMessageHandler", IF new = NULL THEN NULL ELSE "lambda")>>
        \o (IF new # NULL THEN <<Ev("Retain", new)>> ELSE <<>>)

\* A call on a destroyed handler is undefined: the process dies in it, or
\* goes on with the dangling pointer.
SetDebugMessageHandler(debugMessageHandler, dies) ==
    /\ Live
    /\ debugMessageHandler # NULL => Alive(objects, debugMessageHandler)
    /\ LET old == _debugMessageHandler
           released == Release(objects, old)
           undefined ==
               \/ old # NULL /\ objects[old].destroyed
               \/ debugMessageHandler # NULL /\ released[debugMessageHandler].destroyed
       IN  IF dies
           THEN /\ undefined
                /\ crash' = "SetDebugMessageHandler"
                /\ objects' = released
                /\ last' = Call("SetDebugMessageHandler", "ok", RetNone, "none",
                                SetDebugMessageHandlerSteps(old, debugMessageHandler))
                /\ UNCHANGED <<_debugMessageHandler, v8MessageHandler>>
           ELSE /\ crash' = crash
                /\ objects' = Retain(released, debugMessageHandler)
                /\ v8MessageHandler' = (debugMessageHandler # NULL)
                /\ _debugMessageHandler' = debugMessageHandler
                /\ last' = Call("SetDebugMessageHandler", "ok", RetVoid, "none",
                                SetDebugMessageHandlerSteps(old, debugMessageHandler))
    /\ UNCHANGED <<lifecycleVars, boxes, pending, marshal>>

SendDebugCommand ==
    /\ Live
    /\ pending < MaxPending
    /\ pending' = pending + 1
    /\ last' = Call("SendDebugCommand", "ok", RetVoid, "none", <<Ev("SendCommand", "")>>)
    /\ UNCHANGED <<lifecycleVars, _debugMessageHandler, v8MessageHandler, objects,
                   boxes, crash, marshal>>

\* the engine answers each command with a message to the installed lambda,
\* which calls _debugMessageHandler->Handle
ProcessDebugMessages(dies) ==
    /\ Live
    /\ pending' = 0
    /\ LET delivers == pending > 0 /\ v8MessageHandler
           undefined == delivers /\ ~Alive(objects, _debugMessageHandler)
           log == IF delivers THEN <<Ev("Handle", _debugMessageHandler)>> ELSE <<>>
       IN  IF dies
           THEN /\ undefined
                /\ crash' = "ProcessDebugMessages"
                /\ last' = Call("ProcessDebugMessages", "ok", RetNone, "none", log)
           ELSE /\ crash' = crash
                /\ last' = Call("ProcessDebugMessages", "ok", RetVoid, "none", log)
    /\ UNCHANGED <<lifecycleVars, _debugMessageHandler, v8MessageHandler, objects,
                   boxes, marshal>>

(***************************************************************************)
(* The trampoline: the native function behind a synthesized script         *)
(* function (the lambda given to v8::Function::New in Context::Unwrap).    *)
(***************************************************************************)
\* its calls on n arguments, in the order of the code
TrampolineSteps(n) ==
    [k \in 1..n |-> Ev("Wrap", ToString(k))]
        \o <<Ev("Call", "callback")>>
        \o [k \in 1..n |-> Ev("delete", ToString(k))]
        \o <<Ev("Unwrap", "result")>>

Position(log, ev) == CHOOSE p \in 1..Len(log) : log[p] = ev

\* the wrapped arguments already deleted when the result is unwrapped
FreedAtUnwrap(n) ==
    LET steps == TrampolineSteps(n)
    IN  {k \in 1..n : Position(steps, Ev("delete", ToString(k)))
                          < Position(steps, Ev("Unwrap", "result"))}

\* arguments script code calls a callback with
TrampolineArgs ==
    { <<>>, <<NumberV(Num(7, FALSE, FALSE))>>,
      <<StringV(<<97>>), NumberV(Num(0, TRUE, FALSE))>> }

\* what Callback::Call hands back: nothing, a Value of its own, a Callback,
\* or one of the wrapped arguments it was given (alias: which one)
Result(alias, value) == [alias |-> alias, value |-> value]
Results(cb, wrappedArgs) ==
    { Result(0, nullptr), Result(0, NewInt(1)), Result(0, CallbackValue(cb)) }
        \cup {Result(k, wrappedArgs[k]) : k \in 1..Len(wrappedArgs)}

\* Unwrapping a deleted Value is undefined: the process dies ("dies"), the
\* freed memory still holds the Value ("stale"), or it holds no known type
\* and Unwrap falls through to null ("garbage").
Trampoline(i, args, pick, outcome) ==
    /\ Live
    /\ i \in 1..Len(boxes)
    /\ boxes[i].isolate = _isolate
    /\ boxes[i].state \in {"weak", "reset"}
    /\ boxes[i].reachable
    /\ LET wrappedArgs == [k \in 1..Len(args) |-> Wrap(args[k]).value]
           steps == TrampolineSteps(Len(args))
       IN  \E result \in Results(boxes[i].cb, wrappedArgs) :
             /\ pick = result.alias
             /\ IF result.alias \in FreedAtUnwrap(Len(args))
                THEN /\ outcome \in {"dies", "stale", "garbage"}
                     /\ crash' = IF outcome = "dies" THEN "Trampoline" ELSE crash
                     /\ last' = Call("Trampoline", "aliased",
                                     CASE outcome = "dies" -> RetNone
                                       [] outcome = "stale" ->
                                            RetEngine(Unwrap(result.value))
                                       [] OTHER -> RetEngine(NullV),
                                     "none", steps)
                     /\ UNCHANGED <<objects, boxes>>
                ELSE /\ outcome = "defined"
                     /\ crash' = crash
                     /\ Marshalled(<<result.value>>, TRUE)
                     /\ last' = Call("Trampoline",
                                     IF result.alias = 0 THEN "ok" ELSE "aliased",
                                     RetEngine(Unwrap(result.value)), "none",
                                     steps \o RetainLog(CallbacksIn(<<result.value>>)))
    /\ UNCHANGED <<lifecycleVars, debugVars, marshal>>

(***************************************************************************)
(* The specifications.                                                     *)
(***************************************************************************)
Lifecycle ==
    \/ \E handler \in ExceptionHandlers : Construct(handler)
    \/ \E c \in contexts : Destruct(c)

\* the Context life cycle, evaluation and the facades
Next ==
    \/ Lifecycle
    \/ \E source \in Sources : Evaluate(source)
    \/ Facade

Spec == Init /\ [][Next]_vars

\* the debug plumbing
DebugNext ==
    \/ Lifecycle
    \/ \E h \in DebugHandlers \cup {NULL}, dies \in BOOLEAN :
          SetDebugMessageHandler(h, dies)
    \/ SendDebugCommand
    \/ \E dies \in BOOLEAN : ProcessDebugMessages(dies)
    \/ \E o \in DebugHandlers : HostRelease(o)

DebugSpec == Init /\ [][DebugNext]_vars

\* callbacks: boxing, the trampoline and the collector
CallbackNext ==
    \/ Lifecycle
    \/ \E value \in HostValues, done \in {Just(TRUE), Nothing(TRUE)} :
          ObjectSet(value, done)
    \/ \E i \in 1..MaxBoxes, args \in TrampolineArgs, pick \in 0..2,
          outcome \in {"defined", "dies", "stale", "garbage"} :
          Trampoline(i, args, pick, outcome)
    \/ \E i \in 1..MaxBoxes : ScriptDrop(i)
    \/ \E more \in BOOLEAN : IdleNotificationDeadline(more)
    \/ \E o \in Callbacks : HostRelease(o)

CallbackSpec == Init /\ [][CallbackNext]_vars

\* boxing and collecting alone: callbacks are boxed by Object::Set and by a
\* trampoline that returns one, script code drops the functions, and the host
\* calls IdleNotificationDeadline
LiveNext ==
    \/ Construct("eh1")
    \/ \E c \in contexts : Destruct(c)
    \/ \E value \in HostValues, done \in {Just(TRUE), Nothing(TRUE)} :
          ObjectSet(value, done)
    \/ \E i \in 1..MaxBoxes : Trampoline(i, <<>>, 0, "defined")
    \/ \E i \in 1..MaxBoxes : ScriptDrop(i)
    \/ \E more \in BOOLEAN : IdleNotificationDeadline(more)
    \/ \E o \in Callbacks : HostRelease(o)

\* the host keeps calling IdleNotificationDeadline while there is a live
\* Context
LiveSpec ==
    /\ Init
    /\ [][LiveNext]_vars
    /\ WF_vars(\E more \in BOOLEAN : IdleNotificationDeadline(more))

(***************************************************************************)
(* Marshalling: Wrap applied to an engine value, Unwrap to what it made.   *)
(***************************************************************************)
MarshalInit ==
    /\ InitProcess
    /\ \E v \in EngineValues : marshal = Marshalling("engine", v, Ok(nullptr), NullV)

MarshalWrap ==
    /\ marshal.stage = "engine"
    /\ marshal' = [marshal EXCEPT !.stage = "wrapped", !.w = Wrap(marshal.v)]
    /\ UNCHANGED <<lifecycleVars, debugVars, objects, boxes, last, crash>>

MarshalUnwrap ==
    /\ marshal.stage = "wrapped"
    /\ marshal.w.status = "ok"
    /\ marshal' = [marshal EXCEPT !.stage = "unwrapped", !.u = Unwrap(marshal.w.value)]
    /\ UNCHANGED <<lifecycleVars, debugVars, objects, boxes, last, crash>>

MarshalNext == MarshalWrap \/ MarshalUnwrap

MarshalSpec == MarshalInit /\ [][MarshalNext]_vars

(***************************************************************************)
(* The claims.                                                             *)
(***************************************************************************)
Handled(call) == Count(call.log, "Handle")

\* C1: at most one Context is live at any time (a Context is live exactly
\* while the engine instance is not disposed), and a Construct that finds a
\* Context live raises std::runtime_error to its caller and makes no Context.
C1_SingleLiveContext ==
    /\ Cardinality(contexts) <= 1
    /\ (contexts # {}) <=> (_isolate # NoIsolate)
    /\ (last.op = "Construct" /\ last.met = "live") =>
          /\ last.raised = "runtime_error"
          /\ last.ret = RetNone
          /\ Count(last.log, "Isolate::New") = 0

\* a Construct was refused while a Context was live
C1_Witness ==
    /\ last.op = "Construct"
    /\ last.met = "live"
    /\ last.raised = "runtime_error"
    /\ Cardinality(contexts) = 1

\* C2: an Evaluate whose source does not compile or throws while running
\* calls Handle of the registered ScriptExceptionHandler exactly once, within
\* the call, returns null and raises nothing to its caller.
C2_EvaluateReportsOnce ==
    (last.op = "Evaluate" /\ last.met = "failed") =>
        /\ _scriptExceptionHandler # NULL
        /\ last.log = <<Ev("Handle", _scriptExceptionHandler)>>
        /\ Handled(last) = 1
        /\ last.ret = RetPtr(nullptr)
        /\ last.raised = "none"

\* an Evaluate failed and was reported
C2_Witness ==
    /\ last.op = "Evaluate"
    /\ last.met = "failed"
    /\ Handled(last) = 1
    /\ last.ret = RetPtr(nullptr)

FacadeOps ==
    { "Object.Get", "Object.Set", "Object.Keys", "Object.ContainsKey",
      "Object.Equals", "Object.CallMethod", "Object.InstanceOf", "Array.Get",
      "Array.Set", "Array.Length", "Array.Equals", "Function.Call",
      "Function.Construct", "Function.Equals" }

\* C3: every facade operation whose engine operation fails with a script
\* error reports it to the handler once and completes with null (or an
\* empty sequence), false or nothing; Object.InstanceOf returns false.
C3_FacadesTrapUniformly ==
    (last.op \in FacadeOps /\ last.met = "failed") =>
        /\ crash = "none"
        /\ last.raised = "none"
        /\ Handled(last) = 1
        /\ last.ret \in {RetPtr(nullptr), RetBool(FALSE), RetVoid, RetVector(0)}

\* every facade operation but Object.InstanceOf does so
C3_OthersTrap ==
    (last.op \in FacadeOps \ {"Object.InstanceOf"} /\ last.met = "failed") =>
        /\ crash = "none"
        /\ last.raised = "none"
        /\ Handled(last) = 1
        /\ last.ret \in {RetPtr(nullptr), RetBool(FALSE), RetVoid, RetVector(0)}

Resources(log) ==
    LET kept == SelectSeq(log, LAMBDA ev : Resource(ev) # "platform")
    IN  [i \in 1..Len(kept) |-> Resource(kept[i])]

Reverse(seq) == [i \in 1..Len(seq) |-> seq[Len(seq) + 1 - i]]

\* C6: Destruct frees the instanceof helper, releases the exception handler,
\* exits the global scope and disposes the engine instance, in this order,
\* which is the reverse of the order in which Construct acquired them.
C6_TeardownReversesConstruction ==
    /\ last.op = "Destruct" =>
          /\ Resources(last.log) =
                << "instanceof helper", "exception handler", "global scope",
                   "engine instance" >>
          /\ \E handler \in ExceptionHandlers :
                Resources(last.log) = Reverse(Resources(ConstructSteps(handler)))
          /\ _instanceOf = nullptr
          /\ _scriptExceptionHandler = NULL
          /\ ~entered
          /\ _isolate = NoIsolate
    /\ (last.op = "Construct" /\ last.raised = "none") =>
          Resources(last.log) =
              << "engine instance", "global scope", "exception handler",
                 "instanceof helper" >>

\* a Context was destructed
C6_Witness ==
    /\ last.op = "Destruct"
    /\ Len(last.log) = 4
    /\ contextsCreated = 1

\* C7: the platform is initialized once, by the first construction, and no
\* Destruct shuts it down; a Construct that finds no Context live succeeds
\* with an engine instance that did not exist before.
C7_PlatformInitializedOnce ==
    /\ platformInits <= 1
    /\ contextsCreated > 0 => (platformInits = 1 /\ _platform # NULL)
    /\ last.op = "Destruct" => _platform # NULL
    /\ (last.op = "Construct" /\ last.met = "fresh") =>
          /\ last.raised = "none"
          /\ _isolate # NoIsolate
          /\ _isolate = isolatesCreated
          /\ isolatesCreated = contextsCreated
          /\ Count(last.log, "InitializePlatform") =
                (IF contextsCreated = 1 THEN 1 ELSE 0)
    /\ (last.op = "Construct" /\ last.met = "live") =>
          Count(last.log, "InitializePlatform") = 0

\* a second Context was constructed after the first was destructed
C7_Witness ==
    /\ last.op = "Construct"
    /\ last.met = "fresh"
    /\ contextsCreated = 2
    /\ _isolate = 2
    /\ platformInits = 1

(***************************************************************************)
(* C8: the variant the order of the claim gives a value.                   *)
(***************************************************************************)
Order == <<"Int", "Double", "Bool", "String", "Array", "Function", "Object", "Null">>

Matches(v, variant) ==
    CASE variant = "Int" -> IsInt32(v)
      [] variant = "Double" -> IsNumber(v) \/ IsNumberObject(v)
      [] variant = "Bool" -> IsBoolean(v) \/ IsBooleanObject(v)
      [] variant = "String" -> IsString(v) \/ IsStringObject(v)
      [] variant = "Array" -> IsArray(v)
      [] variant = "Function" -> IsFunction(v)
      [] variant = "Object" -> IsObject(v)
      [] OTHER -> IsUndefined(v) \/ IsNull(v)

FirstMatch(v) ==
    LET hits == {i \in 1..Len(Order) : Matches(v, Order[i])}
    IN  IF hits = {} THEN "none"
        ELSE Order[CHOOSE i \in hits : \A j \in hits : i <= j]

\* C8: a value that Evaluate wraps gets the variant of the first predicate
\* of the order that it satisfies (an exception thrown by the conversion of
\* that branch is reported like any script exception); null and undefined
\* give the null Value; a value that satisfies no predicate raises
\* std::runtime_error to the caller and nothing is sent to the handler.
C8_WrapClassifiesInOrder ==
    (last.op = "Evaluate" /\ last.met = "ok") =>
        LET v == last.input
            first == FirstMatch(v)
        IN  CASE first = "none" ->
                    /\ last.raised = "runtime_error"
                    /\ last.log = <<>>
                    /\ last.ret = RetNone
              [] first = "Null" ->
                    /\ last.raised = "none"
                    /\ last.ret = RetPtr(nullptr)
                    /\ last.log = <<>>
              [] OTHER ->
                    /\ last.raised = "none"
                    /\ \/ /\ last.ret.kind = "pointer"
                          /\ last.ret.value.type = first
                          /\ last.log = <<>>
                       \/ /\ v.throws
                          /\ last.ret = RetPtr(nullptr)
                          /\ Handled(last) = 1

\* an array (also an object) was wrapped as an Array
C8_Witness ==
    /\ last.op = "Evaluate"
    /\ last.met = "ok"
    /\ IsArray(last.input)
    /\ IsObject(last.input)
    /\ last.ret.value.type = "Array"

\* a value of no known kind was refused
C8_WitnessUnhandled ==
    /\ last.op = "Evaluate"
    /\ last.input = SymbolV
    /\ last.raised = "runtime_error"

(***************************************************************************)
(* C4 (LiveSpec).                                                          *)
(***************************************************************************)
\* the handles boxing cb whose finalizer has not run
Outstanding(cb) ==
    {i \in 1..Len(boxes) : boxes[i].cb = cb /\ boxes[i].state # "finalized"}

\* box i holds a retained callback that script code no longer reaches
BoxedUnreachable(i) ==
    /\ crash = "none"
    /\ i <= Len(boxes)
    /\ boxes[i].state \notin {"finalized", "disposed"}
    /\ ~boxes[i].reachable

\* the finalizer of box i has run
FinalizerRan(i) == i <= Len(boxes) /\ boxes[i].state = "finalized"

\* no collection pass can run on the engine instance of box i any more: the
\* instance is disposed, or the process has died
PassesStopped(i) ==
    \/ crash # "none"
    \/ i <= Len(boxes) /\ boxes[i].state = "disposed"

\* C4: while collection passes keep running on its engine instance, a boxed
\* callback whose script function has become unreachable eventually has its
\* finalizer run, and the finalizer's Release undoes the Retain of the
\* boxing: the retains held on a callback are those of the handles whose
\* finalizer has not run.
C4_FinalizerEventuallyReleases ==
    /\ [](\A cb \in Callbacks :
            ~objects[cb].destroyed =>
                objects[cb].retains = Cardinality(Outstanding(cb)))
    /\ \A i \in 1..MaxBoxes :
          BoxedUnreachable(i) ~> (FinalizerRan(i) \/ PassesStopped(i))

\* a collection pass ran a finalizer, which released the callback
C4_Witness ==
    /\ last.op = "IdleNotificationDeadline"
    /\ Count(last.log, "Release") = 1
    /\ \E i \in 1..Len(boxes) :
          /\ boxes[i].state = "finalized"
          /\ objects[boxes[i].cb].retains = 0

(***************************************************************************)
(* C5 (DebugSpec).                                                         *)
(***************************************************************************)
\* C5: the Context holds one retain on the registered debug handler and none
\* on any other; a replacement releases the old handler once and retains the
\* new one once; no handler is retained or invoked once the last reference
\* to it is released.
C5_DebugHandlerRetainedOnce ==
    /\ crash \notin {"SetDebugMessageHandler", "ProcessDebugMessages"}
    /\ \A h \in DebugHandlers :
          objects[h].retains = (IF h = _debugMessageHandler THEN 1 ELSE 0)
    /\ _debugMessageHandler # NULL => Alive(objects, _debugMessageHandler)
    /\ last.op = "SetDebugMessageHandler" =>
          /\ Count(last.log, "Release") <= 1
          /\ Count(last.log, "Retain") <= 1

\* the same, while the host keeps its own reference to every debug handler
C5_WhileHostHolds ==
    (\A h \in DebugHandlers : objects[h].hostRef) => C5_DebugHandlerRetainedOnce

(***************************************************************************)
(* C9 (MarshalSpec).                                                       *)
(***************************************************************************)
\* the engine's equality on primitive values (minus zero equals zero)
EngineEquals(a, b) ==
    /\ a.kind = b.kind
    /\ CASE a.kind = "number" -> a.num.whole = b.num.whole /\ a.num.half = b.num.half
         [] a.kind = "boolean" -> a.bool = b.bool
         [] a.kind = "string" -> a.str = b.str
         [] OTHER -> FALSE

\* C9: Unwrap(Wrap(v)) is engine-equal to v for every number, boolean and
\* string v, strings with a NUL in them included.
C9_ScalarRoundTrip ==
    (marshal.stage = "unwrapped" /\ marshal.v \in ScalarValues) =>
        EngineEquals(marshal.u, marshal.v)

HasNul(str) == \E i \in 1..Len(str) : str[i] = 0

\* the same for the values that hold no NUL
C9_WithoutNul ==
    (marshal.stage = "unwrapped" /\ marshal.v \in ScalarValues
        /\ ~HasNul(marshal.v.str)) => EngineEquals(marshal.u, marshal.v)

(***************************************************************************)
(* C10 (CallbackSpec).                                                     *)
(***************************************************************************)
Before(log, first, then) ==
    \A p \in Positions(log, first), q \in Positions(log, then) : p < q

\* C10: the trampoline wraps the arguments, calls the callback, unwraps the
\* result and only then frees the wrapped arguments, so that a result that
\* is one of them is alive when it is unwrapped.
C10_UnwrapBeforeFree ==
    last.op = "Trampoline" =>
        /\ Before(last.log, "Wrap", "Call")
        /\ Before(last.log, "Call", "Unwrap")
        /\ Before(last.log, "Unwrap", "delete")
        /\ crash # "Trampoline"

\* the steps other than the order of Unwrap and delete
C10_RestOfOrder ==
    last.op = "Trampoline" =>
        /\ Before(last.log, "Wrap", "Call")
        /\ Before(last.log, "Call", "Unwrap")
        /\ Before(last.log, "Call", "delete")
        /\ Count(last.log, "Call") = 1
        /\ Count(last.log, "Unwrap") = 1
        /\ Count(last.log, "Wrap") = Count(last.log, "delete")

(***************************************************************************)
(* C11 (CallbackSpec).  The weak handles are the ledger of the boxings:    *)
(* boxes only grows, one entry for each boxing, and an entry is finalized  *)
(* when its finalizer has run.                                             *)
(***************************************************************************)
\* the handles ever made for cb: its boxing Retains
Boxed(bxs, cb) == {i \in 1..Len(bxs) : bxs[i].cb = cb}

\* the handles of cb whose finalizer has run: its finalizer Releases
FinalizerReleased(bxs, cb) == {i \in Boxed(bxs, cb) : bxs[i].state = "finalized"}

\* how often exactly this call is in a log
Times(log, ev) == Cardinality({p \in 1..Len(log) : log[p] = ev})

\* in every state: the finalizer Releases of a callback never exceed its
\* boxing Retains, the count the bridge holds is their difference, and a
\* callback with a synthesized function that script code still reaches is
\* alive with a count of at least one
CountBalanced ==
    \A cb \in Callbacks :
        /\ Cardinality(FinalizerReleased(boxes, cb)) <= Cardinality(Boxed(boxes, cb))
        /\ Alive(objects, cb) =>
              objects[cb].retains + Cardinality(FinalizerReleased(boxes, cb))
                  = Cardinality(Boxed(boxes, cb))
        /\ ~Alive(objects, cb) =>
              FinalizerReleased(boxes, cb) = Boxed(boxes, cb)
        /\ \A i \in Boxed(boxes, cb) :
              boxes[i].reachable =>
                  /\ boxes[i].state # "finalized"
                  /\ Alive(objects, cb)
                  /\ objects[cb].retains >= 1

\* in every step: a handle is never removed and never leaves "finalized" (its
\* finalizer runs at most once); every boxing is one Retain and one new weak
\* handle; every finalizer run is one Release
CountStep ==
    /\ Len(boxes') >= Len(boxes)
    /\ \A i \in 1..Len(boxes) :
          /\ boxes'[i].cb = boxes[i].cb
          /\ boxes[i].state = "finalized" => boxes'[i] = boxes[i]
    /\ \A i \in (Len(boxes) + 1)..Len(boxes') : boxes'[i].state = "weak"
    /\ \A cb \in Callbacks :
          LET new == Boxed(boxes', cb) \ Boxed(boxes, cb)
              fin == FinalizerReleased(boxes', cb) \ FinalizerReleased(boxes, cb)
          IN  /\ (new # {} \/ fin # {} \/ last' # last) =>
                    /\ Times(last'.log, Ev("Retain", cb)) = Cardinality(new)
                    /\ Times(last'.log, Ev("Release", cb)) = Cardinality(fin)
              /\ Alive(objects, cb) =>
                    objects'[cb].retains + Cardinality(fin)
                        = objects[cb].retains + Cardinality(new)

\* C11: callback reference counting stays balanced across the bridge: each
\* Unwrap of a Callback performs one Retain and registers one weak handle,
\* each handle's finalizer performs one Release and runs at most once; so
\* the finalizer Releases of a callback never exceed its boxing Retains, and
\* while script code reaches a synthesized function of a callback its count
\* is at least one: the trampoline never runs on a released callback.
C11_CallbackCountBalanced == [](CountBalanced) /\ [][CountStep]_vars

\* a callback boxed twice which the host has let go of: the finalizer of one
\* handle has released it, the other function is still reached by script
\* code and has just been called
C11_Witness ==
    /\ last.op = "Trampoline"
    /\ \E cb \in Callbacks :
          /\ ~objects[cb].hostRef
          /\ objects[cb].retains = 1
          /\ \E i, j \in Boxed(boxes, cb) :
                /\ boxes[i].state = "finalized"
                /\ boxes[j].state = "weak"
                /\ boxes[j].reachable

====
